---- MODULE Spec2Model ----
(***************************************************************************)
(* A model of the test-scenario generator of src/test_generator.py.        *)
(*                                                                         *)
(* Text is modelled as a sequence of tokens (a Python str is the           *)
(* concatenation of its tokens), a multi-line text as a sequence of lines. *)
(* A Python exception is modelled by a "raised" flag carried by the value  *)
(* an operator returns: once it is set, the remaining work of the callers  *)
(* is skipped up to the try/except of analyze_repository.                  *)
(***************************************************************************)
EXTENDS Integers, Sequences, FiniteSets, TLC

VARIABLES
    repo,            \* the eligible files, in the order os.walk yields them
    verbose,         \* args.verbose, read when main writes (FALSE until then)
    pc,              \* position of main: "analyze", "write", "done"
    visited,         \* number of files analyze_repository has gone through
    imports,         \* self.imports, in the order of first insertion
    module_imports,  \* self.module_imports, as a sequence of <<key, value>>
    test_scenarios,  \* the dict analyze_repository builds, in insertion order
    warnings,        \* the paths of the "Warning: Could not analyze" lines
    calls,           \* history: one entry per call of generate_test_scenarios
    steps,           \* history: the number of steps main has taken
    artifact         \* the lines written to args.output

vars == <<repo, verbose, pc, visited, imports, module_imports,
          test_scenarios, warnings, calls, steps, artifact>>

-----------------------------------------------------------------------------
(* Bounds of the model. *)

\* files in the repository
MaxFiles == 2
\* top-level nodes of the whole repository (Init)
MaxNodes == 2
\* parameters plus direct body statements of the declaration (InitDecl)
MaxSize == 3

-----------------------------------------------------------------------------
(* Sequences and token text. *)

Range(s) == {s[i] : i \in 1..Len(s)}

RECURSIVE Concat(_)
Concat(ss) == IF ss = <<>> THEN <<>> ELSE Head(ss) \o Concat(Tail(ss))

\* str.replace on token text: every token `old` becomes the tokens `new`
Replace(s, old, new) ==
    IF Len(new) = 1
    THEN [i \in 1..Len(s) |-> IF s[i] = old THEN new[1] ELSE s[i]]
    ELSE Concat([i \in 1..Len(s) |-> IF s[i] = old THEN new ELSE <<s[i]>>])

\* ", ".join(parts)
RECURSIVE Join(_)
Join(parts) ==
    IF parts = <<>> THEN <<>>
    ELSE IF Len(parts) = 1 THEN Head(parts)
    ELSE Head(parts) \o <<", ">> \o Join(Tail(parts))

\* set.add on a set kept in insertion order
SetAdd(s, x) == IF x \in Range(s) THEN s ELSE Append(s, x)

\* All the tokens import statements are made of, in ascending str order
\* (code point order of their first differing character).  No token of one
\* kind (module part, imported name) is a prefix of another of that kind, so
\* comparing token by token is comparing the strings.
TokenOrder ==
    <<" import ", ".", "Cart", "add", "check", "from ", "import asyncio",
      "import pytest", "mod", "noop", "pkg", "stats", "util", "zed">>

Rank(t) == CHOOSE i \in 1..Len(TokenOrder) : TokenOrder[i] = t

\* a < b for two str values
RECURSIVE StrLess(_, _)
StrLess(a, b) ==
    IF b = <<>> THEN FALSE
    ELSE IF a = <<>> THEN TRUE
    ELSE IF Head(a) = Head(b) THEN StrLess(Tail(a), Tail(b))
    ELSE Rank(Head(a)) < Rank(Head(b))

\* sorted(s) for a collection of str
sorted(s) == SortSeq(s, StrLess)

-----------------------------------------------------------------------------
(* Python values: their type, the number for an int, and their repr(). *)

PyInt(n) == [type |-> "int", n |-> n, lit |-> <<ToString(n)>>]
Py(type, lit) == [type |-> type, n |-> 0, lit |-> lit]
PyStr(s) == Py("str", <<"'">> \o s \o <<"'">>)
PyNone == Py("NoneType", <<"None">>)

repr(value) == value.lit

\* the annotation of a parameter as the type it names, None otherwise
TypeNames == {"str", "int", "float", "bool", "list", "dict", "set", "tuple"}
NoType == "None"

infer_type(arg) ==
    IF arg.annotation \in TypeNames THEN arg.annotation ELSE NoType

generate_sample_value(arg_type) ==
    IF arg_type = "str" THEN PyStr(<<"sample_string">>)
    ELSE IF arg_type = "int" THEN PyInt(42)
    ELSE IF arg_type = "float" THEN Py("float", <<"3.14">>)
    ELSE IF arg_type = "bool" THEN Py("bool", <<"True">>)
    ELSE IF arg_type = "list" THEN Py("list", <<"[1, 2, 3]">>)
    ELSE IF arg_type = "dict"
        THEN Py("dict", <<"{", "'", "key", "'", ": ", "'", "value", "'", "}">>)
    ELSE IF arg_type = "set" THEN Py("set", <<"{1, 2, 3}">>)
    ELSE IF arg_type = "tuple" THEN Py("tuple", <<"(1, 2, 3)">>)
    ELSE PyNone

EdgeTypes == {"str", "int", "float", "list", "dict", "set", "bool"}

StrCases ==
    << <<"empty", PyStr(<<>>)>>,
       <<"very_long", PyStr(<<"a*1000">>)>>,
       <<"special_chars", PyStr(<<"!@#$%^&*()">>)>>,
       <<"numeric", PyStr(<<"12345">>)>>,
       <<"whitespace", PyStr(<<"   ">>)>> >>

IntCases ==
    << <<"zero", PyInt(0)>>,
       <<"negative", PyInt(-1)>>,
       <<"large", PyInt(1000000)>>,
       <<"min_int", PyInt(-2147483647 - 1)>>,
       <<"max_int", PyInt(2147483647)>> >>

FloatCases ==
    << <<"zero", Py("float", <<"0.0">>)>>,
       <<"negative", Py("float", <<"-1.0">>)>>,
       <<"very_small", Py("float", <<"1e-10">>)>>,
       <<"very_large", Py("float", <<"10000000000.0">>)>>,
       <<"infinity", Py("float", <<"inf">>)>> >>

ListCases ==
    << <<"empty", Py("list", <<"[]">>)>>,
       <<"single", Py("list", <<"[1]">>)>>,
       <<"large", Py("list", <<"[0, 1, ..., 99]">>)>>,
       <<"nested", Py("list", <<"[[1, 2], [3, 4]]">>)>> >>

DictCases ==
    << <<"empty", Py("dict", <<"{}">>)>>,
       <<"single", Py("dict", <<"{", "'", "key", "'", ": ", "'", "value", "'", "}">>)>>,
       <<"nested",
         Py("dict", <<"{", "'", "outer", "'", ": ", "{", "'", "inner", "'",
                      ": ", "'", "value", "'", "}", "}">>)>> >>

SetCases ==
    << <<"empty", Py("set", <<"set()">>)>>,
       <<"single", Py("set", <<"{1}">>)>>,
       <<"multiple", Py("set", <<"{1, 2, 3}">>)>> >>

BoolCases ==
    << <<"true", Py("bool", <<"True">>)>>,
       <<"false", Py("bool", <<"False">>)>> >>

\* type_edge_cases with the two extreme integers in the other order
type_edge_cases_swapped(arg_type) ==
    IF arg_type = "str" THEN StrCases
    ELSE IF arg_type = "int"
        THEN <<IntCases[1], IntCases[2], IntCases[3], IntCases[5], IntCases[4]>>
    ELSE IF arg_type = "float" THEN FloatCases
    ELSE IF arg_type = "list" THEN ListCases
    ELSE IF arg_type = "dict" THEN DictCases
    ELSE IF arg_type = "set" THEN SetCases
    ELSE IF arg_type = "bool" THEN BoolCases
    ELSE <<>>

\* type_edge_cases[arg_type], <<>> for a type that is no key of it
type_edge_cases(arg_type) ==
    IF arg_type = "str" THEN StrCases
    ELSE IF arg_type = "int" THEN IntCases
    ELSE IF arg_type = "float" THEN FloatCases
    ELSE IF arg_type = "list" THEN ListCases
    ELSE IF arg_type = "dict" THEN DictCases
    ELSE IF arg_type = "set" THEN SetCases
    ELSE IF arg_type = "bool" THEN BoolCases
    ELSE <<>>

-----------------------------------------------------------------------------
(* The syntax tree astroid yields.  Every node is a record of one shape:    *)
(* kind, name, args (parameters: name and annotation), test (the condition  *)
(* of an If, as_string()), handlers (of a TryExcept: the type of each       *)
(* handler as_string(), <<>> for a bare except) and body.                   *)

AstNode(kind, name, args, test, handlers, body) ==
    [kind |-> kind, name |-> name, args |-> args, test |-> test,
     handlers |-> handlers, body |-> body]

Arg(name, annotation) == [name |-> name, annotation |-> annotation]
FunctionDef(name, args, body) == AstNode("FunctionDef", name, args, <<>>, <<>>, body)
AsyncFunctionDef(name, args, body) ==
    AstNode("AsyncFunctionDef", name, args, <<>>, <<>>, body)
ClassDef(name, body) == AstNode("ClassDef", name, <<>>, <<>>, <<>>, body)
If(test, body) == AstNode("If", "", <<>>, test, <<>>, body)
TryExcept(handlers, body) == AstNode("TryExcept", "", <<>>, <<>>, handlers, body)
Stmt(kind, body) == AstNode(kind, "", <<>>, <<>>, <<>>, body)

\* isinstance(node, astroid.AsyncFunctionDef)
IsAsync(node) == node.kind = "AsyncFunctionDef"
\* isinstance(node, (astroid.FunctionDef, astroid.AsyncFunctionDef))
IsFunction(node) == node.kind \in {"FunctionDef", "AsyncFunctionDef"}

\* ClassDef.mymethods(): the functions defined directly in the class
mymethods(node) == SelectSeq(node.body, IsFunction)

-----------------------------------------------------------------------------
(* black.format_str: the external formatter.  It parses the text and       *)
(* raises on a syntax error; the only way the generated text can be        *)
(* invalid is a test name that is no identifier.  On valid text it drops   *)
(* the leading blank line and normalises string quotes.                    *)

\* tokens that cannot be part of an identifier
NonIdentifier == {".", " ", ">", "<", "<=", ">=", "==", "(", ")", "'", ", "}

DefIndex(line) ==
    IF \E i \in 1..Len(line) : line[i] = "def "
    THEN CHOOSE i \in 1..Len(line) : line[i] = "def "
    ELSE 0

\* the tokens between "def " and "():" of a def line
DefName(line) == SubSeq(line, DefIndex(line) + 1, Len(line) - 1)

IsValidSource(text) ==
    \A l \in 1..Len(text) :
        DefIndex(text[l]) > 0 =>
            /\ DefName(text[l]) # <<>>
            /\ \A t \in Range(DefName(text[l])) : t \notin NonIdentifier

RECURSIVE StripLeadingBlank(_)
StripLeadingBlank(text) ==
    IF text # <<>> /\ Head(text) = <<>> THEN StripLeadingBlank(Tail(text))
    ELSE text

format_str(text) ==
    IF ~IsValidSource(text) THEN [raised |-> TRUE, text |-> <<>>]
    ELSE [raised |-> FALSE,
          text |-> LET t == StripLeadingBlank(text)
                   IN [l \in 1..Len(t) |-> Replace(t[l], "'", <<"\"">>)]]

-----------------------------------------------------------------------------
(* Rendering of one scenario. *)

NoClass == ""

\* setup_code: the lines constructing the object, none for a function
SetupCode(is_method, class_name) ==
    IF is_method /\ class_name # NoClass
    THEN << <<"    ", "obj = ", class_name, "()">> >>
    ELSE <<>>

\* function_call
FunctionCall(function_name, is_method, class_name) ==
    IF is_method /\ class_name # NoClass
    THEN <<"obj", ".", function_name>>
    ELSE <<function_name>>

async_prefix(is_async) == IF is_async THEN <<"async ">> ELSE <<>>
await_prefix(is_async) == IF is_async THEN <<"await ">> ELSE <<>>

Scenario(type, name, description, input, code) ==
    [raised |-> code.raised,
     scenario |-> [type |-> type, name |-> name, description |-> description,
                   input |-> input, test_code |-> code.text]]

\* the text of a test that calls the function with one keyword argument
ArgumentTestCode(test_name, function_name, arg_name, value, is_async, is_method, class_name) ==
    << <<>>,
       async_prefix(is_async) \o <<"def ">> \o test_name \o <<"():">> >>
    \o SetupCode(is_method, class_name)
    \o << <<"    ", "result = ">> \o await_prefix(is_async)
            \o FunctionCall(function_name, is_method, class_name)
            \o <<"(", arg_name, "=">> \o repr(value) \o <<")">>,
          <<"    ", "assert result is not None">> >>

create_parameter_test(function_name, arg_name, arg_type, is_async, is_method, class_name) ==
    LET test_value == generate_sample_value(arg_type)
        name == <<"test_", function_name, "_with_valid_", arg_name>>
    IN Scenario("parameter_test", name,
                <<"Test ", function_name, " with valid ", arg_name>>,
                << <<arg_name, test_value>> >>,
                format_str(ArgumentTestCode(name, function_name, arg_name,
                               test_value, is_async, is_method, class_name)))

\* one edge case of generate_edge_case_tests
EdgeCase(function_name, arg_name, case, is_async, is_method, class_name) ==
    LET case_name == case[1]
        value == case[2]
        name == <<"test_", function_name, "_with_", case_name, "_", arg_name>>
    IN Scenario("edge_case", name,
                <<"Test ", function_name, " with ", case_name, " ", arg_name>>,
                << <<arg_name, value>> >>,
                format_str(ArgumentTestCode(name, function_name, arg_name,
                               value, is_async, is_method, class_name)))

\* appends the scenarios of `cases` to acc until one of them raises
RECURSIVE EdgeCaseLoop(_, _, _, _, _, _, _)
EdgeCaseLoop(cases, acc, function_name, arg_name, is_async, is_method, class_name) ==
    IF cases = <<>> \/ acc.raised THEN acc
    ELSE LET e == EdgeCase(function_name, arg_name, Head(cases),
                           is_async, is_method, class_name)
         IN EdgeCaseLoop(Tail(cases),
                [raised |-> e.raised,
                 scenarios |-> IF e.raised THEN acc.scenarios
                               ELSE Append(acc.scenarios, e.scenario)],
                function_name, arg_name, is_async, is_method, class_name)

\* generate_edge_case_tests without the `arg_type in type_edge_cases` test:
\* a parameter of no known type gets the edge cases of str
generate_edge_case_tests_untyped(function_name, arg_name, arg_type, is_async, is_method, class_name) ==
    EdgeCaseLoop(type_edge_cases(IF arg_type \in EdgeTypes THEN arg_type ELSE "str"),
                 [raised |-> FALSE, scenarios |-> <<>>],
                 function_name, arg_name, is_async, is_method, class_name)

generate_edge_case_tests(function_name, arg_name, arg_type, is_async, is_method, class_name) ==
    IF arg_type \in EdgeTypes
    THEN EdgeCaseLoop(type_edge_cases(arg_type), [raised |-> FALSE, scenarios |-> <<>>],
                      function_name, arg_name, is_async, is_method, class_name)
    ELSE [raised |-> FALSE, scenarios |-> <<>>]

analyze_conditional(function_name, node, setup_code, function_call, is_async) ==
    LET condition == node.test
        text ==
            << <<>>,
               async_prefix(is_async)
                 \o <<"def ", "test_", function_name, "_condition_">>
                 \o Replace(Replace(condition, ".", <<"_">>), " ", <<"_">>)
                 \o <<"():">> >>
            \o setup_code
            \o << <<"    ", "# Test the condition: ">> \o condition,
                  <<"    ", "try:">>,
                  <<"        ">> \o function_call \o <<"()">>,
                  <<"    ", "except Exception as e:">>,
                  <<"        ", "pytest.fail(f\"Unexpected error: {e}\")">> >>
    IN Scenario("conditional_test",
                <<"test_", function_name, "_condition_">> \o condition,
                <<"Test conditional branch: ">> \o condition,
                <<>>,
                format_str(text))

HasType(handler) == handler # <<>>

analyze_exception_handling(function_name, node, setup_code, function_call, is_async) ==
    LET exceptions == SelectSeq(node.handlers, HasType)
        exception_list == Join(exceptions)
        text ==
            << <<>>,
               async_prefix(is_async)
                 \o <<"def ", "test_", function_name, "_exceptions", "():">> >>
            \o setup_code
            \o << <<"    ", "with pytest.raises((">> \o exception_list \o <<")):">>,
                  <<"        ">> \o function_call \o <<"()">> >>
    IN Scenario("exception_test",
                <<"test_", function_name, "_exceptions">>,
                <<"Test exception handling for: ">> \o exception_list,
                <<>>,
                format_str(text))

\* the loop over node.body of analyze_function_body
RECURSIVE BodyLoop(_, _, _, _, _, _)
BodyLoop(body, acc, function_name, setup_code, function_call, is_async) ==
    IF body = <<>> \/ acc.raised THEN acc
    ELSE LET child == Head(body)
             s == IF child.kind = "If"
                  THEN analyze_conditional(function_name, child, setup_code,
                                           function_call, is_async)
                  ELSE analyze_exception_handling(function_name, child, setup_code,
                                                  function_call, is_async)
         IN IF child.kind \in {"If", "TryExcept"}
            THEN BodyLoop(Tail(body),
                     [raised |-> s.raised,
                      scenarios |-> IF s.raised THEN acc.scenarios
                                    ELSE Append(acc.scenarios, s.scenario)],
                     function_name, setup_code, function_call, is_async)
            ELSE BodyLoop(Tail(body), acc, function_name, setup_code,
                          function_call, is_async)

analyze_function_body(node, is_method, class_name) ==
    BodyLoop(node.body, [raised |-> FALSE, scenarios |-> <<>>], node.name,
             SetupCode(is_method, class_name),
             FunctionCall(node.name, is_method, class_name), IsAsync(node))

-----------------------------------------------------------------------------
(* Python dicts, kept in insertion order: a sequence of <<key, value>>. *)

DictKeys(d) == {d[i][1] : i \in 1..Len(d)}
DictGet(d, k) == d[CHOOSE i \in 1..Len(d) : d[i][1] = k][2]

\* d[k] = v: a key that is present keeps its position and takes the new value
DictSet(d, k, v) ==
    IF k \in DictKeys(d)
    THEN [i \in 1..Len(d) |-> IF d[i][1] = k THEN <<k, v>> ELSE d[i]]
    ELSE Append(d, <<k, v>>)

-----------------------------------------------------------------------------
(* Scenario synthesis for one declaration. *)

\* relative_path.replace('/', '.').replace('.py', '')
ModuleName(relative_path) == Replace(Replace(relative_path, "/", <<".">>), ".py", <<>>)

\* node.args.args[1:] if is_method else node.args.args
Parameters(node, is_method) ==
    IF is_method /\ node.args # <<>> THEN Tail(node.args) ELSE node.args

\* the loop over the parameters of generate_test_scenarios
RECURSIVE ParameterLoop(_, _, _, _, _)
ParameterLoop(args, acc, node, is_method, class_name) ==
    IF args = <<>> \/ acc.raised THEN acc
    ELSE LET arg_name == Head(args).name
             arg_type == infer_type(Head(args))
             p == create_parameter_test(node.name, arg_name, arg_type,
                                        IsAsync(node), is_method, class_name)
             e == generate_edge_case_tests(node.name, arg_name, arg_type,
                                           IsAsync(node), is_method, class_name)
         IN IF p.raised THEN [acc EXCEPT !.raised = TRUE]
            ELSE ParameterLoop(Tail(args),
                     [raised |-> e.raised,
                      scenarios |-> IF e.raised
                                    THEN Append(acc.scenarios, p.scenario)
                                    ELSE Append(acc.scenarios, p.scenario) \o e.scenarios],
                     node, is_method, class_name)

\* the import statements a call of generate_test_scenarios adds, in order
RequiredImports(node, module_path, class_name) ==
    LET import_name == ModuleName(module_path)
    IN << <<"import pytest">> >>
       \o (IF IsAsync(node) THEN << <<"import asyncio">> >> ELSE <<>>)
       \o << <<"from ">> \o import_name \o <<" import ">>
             \o <<IF class_name # NoClass THEN class_name ELSE node.name>> >>

RECURSIVE AddAll(_, _)
AddAll(s, xs) == IF xs = <<>> THEN s ELSE AddAll(SetAdd(s, Head(xs)), Tail(xs))

\* the value returned, or what was built when the exception left the call;
\* imports is self.imports after the call
generate_test_scenarios(node, is_method, module_name, class_name, imps, mod_imps) ==
    LET module_path == DictGet(mod_imps, module_name)
        params == ParameterLoop(Parameters(node, is_method),
                                [raised |-> FALSE, scenarios |-> <<>>],
                                node, is_method, class_name)
        body == analyze_function_body(node, is_method, class_name)
    IN [imports |-> AddAll(imps, RequiredImports(node, module_path, class_name)),
        raised |-> params.raised \/ body.raised,
        scenarios |-> IF params.raised THEN params.scenarios
                      ELSE params.scenarios \o body.scenarios]

-----------------------------------------------------------------------------
(* Analysis of one file. *)

Target(node, is_method, class_name, key) ==
    [node |-> node, is_method |-> is_method, class_name |-> class_name, key |-> key]

\* the calls of generate_test_scenarios analyze_file makes, in order
RECURSIVE Targets(_)
Targets(body) ==
    IF body = <<>> THEN <<>>
    ELSE LET node == Head(body)
             ms == mymethods(node)
         IN (IF IsFunction(node)
             THEN <<Target(node, FALSE, NoClass, <<node.name>>)>>
             ELSE IF node.kind = "ClassDef"
             THEN [i \in 1..Len(ms) |->
                     Target(ms[i], TRUE, node.name, <<node.name, ".", ms[i].name>>)]
             ELSE <<>>)
            \o Targets(Tail(body))

RECURSIVE FileLoop(_, _, _, _)
FileLoop(targets, acc, module_name, mod_imps) ==
    IF targets = <<>> \/ acc.raised THEN acc
    ELSE LET t == Head(targets)
             g == generate_test_scenarios(t.node, t.is_method, module_name,
                                          t.class_name, acc.imports, mod_imps)
         IN FileLoop(Tail(targets),
                [imports |-> g.imports,
                 raised |-> g.raised,
                 file_scenarios |-> IF g.raised THEN acc.file_scenarios
                                    ELSE DictSet(acc.file_scenarios, t.key, g.scenarios),
                 calls |-> Append(acc.calls,
                              [module |-> module_name, key |-> t.key, node |-> t.node,
                               is_method |-> t.is_method, class_name |-> t.class_name,
                               scenarios |-> g.scenarios, raised |-> g.raised])],
                module_name, mod_imps)

analyze_file(tree, module_name, imps, mod_imps) ==
    FileLoop(Targets(tree), [imports |-> imps, raised |-> FALSE,
                             file_scenarios |-> <<>>, calls |-> <<>>],
             module_name, mod_imps)

-----------------------------------------------------------------------------
(* The inputs: source files and repositories. *)

\* A source file: its path, whether astroid.parse accepts its text, and its
\* text, given as the top-level definitions written in it.  A definition is
\* written as [def, is_async, is_method, args, body]: def names a definition
\* of the catalogue below, or is "add" for the declaration that args (the
\* annotations of its parameters) and body (its statements) spell out.
SourceFile(path, parses, source) == [path |-> path, parses |-> parses, source |-> source]

Written(def) ==
    [def |-> def, is_async |-> FALSE, is_method |-> FALSE, args |-> <<>>, body |-> <<>>]

\* the directory-relative paths of the files, by position in the walk
Paths == << <<"pkg", "/", "util", ".py">>, <<"mod", ".py">>, <<"zed", ".py">>,
            <<"pkg", "/", "mod", ".py">> >>

LastSlash(path) ==
    IF \E i \in 1..Len(path) : path[i] = "/"
    THEN CHOOSE i \in 1..Len(path) :
            path[i] = "/" /\ \A j \in (i + 1)..Len(path) : path[j] # "/"
    ELSE 0

\* the name os.walk gives for the file
Basename(path) == SubSeq(path, LastSlash(path) + 1, Len(path))

\* the same path with a basename that starts with test_
TestPath(path) ==
    SubSeq(path, 1, LastSlash(path)) \o <<"test_">> \o Basename(path)

\* file.endswith('.py') and not file.startswith('test_')
Eligible(path) ==
    LET file == Basename(path)
    IN file # <<>> /\ file[Len(file)] = ".py" /\ file[1] # "test_"

Pass == Stmt("Pass", <<>>)
Import == Stmt("Import", <<>>)
NoAnnotation == ""

SafeCondition == <<"a", ".", "ok">>
UnsafeCondition == <<"a", " ", ">", " ", "0">>

\* the statements a declaration is written with
Statement(code) ==
    CASE code = "if_safe" -> If(SafeCondition, <<Pass>>)
      [] code = "if_unsafe" -> If(UnsafeCondition, <<Pass>>)
      [] code = "try_bare" -> TryExcept(<< <<"ValueError">>, <<>> >>, <<Pass>>)
      [] code = "try_two" -> TryExcept(<< <<"KeyError">>, <<"TypeError">> >>, <<Pass>>)
      [] code = "while" ->
            Stmt("While", <<If(SafeCondition, <<Pass>>), TryExcept(<< <<>> >>, <<Pass>>)>>)
      [] OTHER -> Pass

ParamNames == <<"a", "b", "c", "d", "e", "f">>

\* the tree of one top-level definition
Definition(w) ==
    CASE w.def = "stats_list" ->
            FunctionDef("stats", <<Arg("xs", "list"), Arg("opts", "dict")>>, <<Pass>>)
      [] w.def = "noop" -> FunctionDef("noop", <<>>, <<Pass>>)
      [] w.def = "check" ->
            FunctionDef("check", <<Arg("a", NoAnnotation)>>,
                        <<If(UnsafeCondition, <<Pass>>), Pass>>)
      [] w.def = "stats_int" ->
            FunctionDef("stats", <<Arg("n", "int")>>,
                        <<TryExcept(<< <<"ValueError">> >>, <<Pass>>)>>)
      [] w.def = "Cart" ->
            ClassDef("Cart",
               <<Pass,
                 FunctionDef("__init__", <<Arg("self", NoAnnotation)>>, <<Pass>>),
                 AsyncFunctionDef("total",
                     <<Arg("self", NoAnnotation), Arg("is_member", "bool")>>,
                     <<If(<<"is_member">>, <<Pass>>),
                       TryExcept(<< <<"KeyError">>, <<>> >>, <<Pass>>)>>)>>)
      [] OTHER ->
            LET args == (IF w.is_method THEN <<Arg("self", NoAnnotation)>> ELSE <<>>)
                        \o [i \in 1..Len(w.args) |-> Arg(ParamNames[i], w.args[i])]
                body == [i \in 1..Len(w.body) |-> Statement(w.body[i])]
                def == IF w.is_async THEN AsyncFunctionDef("add", args, body)
                       ELSE FunctionDef("add", args, body)
            IN IF w.is_method THEN ClassDef("Cart", <<def>>) ELSE def

\* astroid.parse on a text it accepts: tree.body
Parse(source) == <<Import>> \o [i \in 1..Len(source) |-> Definition(source[i])]

Catalogue == {Written(d) : d \in {"stats_list", "noop", "check", "stats_int", "Cart"}}

\* the files that can stand at position k with n top-level definitions
FilesAt(k, n) ==
    IF n = 0
    THEN { SourceFile(Paths[k], FALSE, <<>>),
           SourceFile(Paths[k], TRUE, <<>>),
           SourceFile(TestPath(Paths[k]), TRUE, <<Written("noop")>>) }
    ELSE { SourceFile(Paths[k], TRUE, source) : source \in [1..n -> Catalogue] }

\* the repositories of k files with at most `budget` definitions in all
RECURSIVE Repos(_, _)
Repos(k, budget) ==
    IF k = 0 THEN {<<>>}
    ELSE UNION { { Append(r, f) : r \in Repos(k - 1, budget - n), f \in FilesAt(k, n) } :
                 n \in 0..budget }

Repositories == UNION { Repos(k, MaxNodes) : k \in 0..MaxFiles }

\* one declaration: a function or a method, synchronous or asynchronous
DeclAnnotations == {"int", "str", "tuple", NoAnnotation, "List[int]"}
DeclStmts == {"if_safe", "if_unsafe", "try_bare", "try_two", "while"}

Declarations ==
    UNION { { [def |-> "add", is_async |-> is_async, is_method |-> is_method,
               args |-> a, body |-> b] :
                a \in [1..p -> DeclAnnotations], b \in [1..(n - p) -> DeclStmts],
                is_async \in BOOLEAN, is_method \in BOOLEAN } :
            p \in 0..MaxSize, n \in 0..MaxSize }

-----------------------------------------------------------------------------
(* The run: main, with analyze_repository one file at a time. *)

InitRun ==
    /\ verbose = FALSE
    /\ pc = "analyze"
    /\ visited = 0
    /\ imports = <<>>
    /\ module_imports = <<>>
    /\ test_scenarios = <<>>
    /\ warnings = <<>>
    /\ calls = <<>>
    /\ steps = 0
    /\ artifact = <<>>

\* a repository of several files
Init == repo \in Repositories /\ InitRun

\* a repository of one file that holds one declaration
InitDecl ==
    /\ repo \in { <<SourceFile(Paths[2], TRUE, <<d>>)>> : d \in Declarations }
                \cup Repos(1, 0)
    /\ InitRun

CurrentFile == repo[visited + 1]

\* the loop of analyze_repository stands before a file
AtFile == pc = "analyze" /\ visited < Len(repo)

\* self.module_imports once the module of the current file is stored
StoredModule ==
    DictSet(module_imports, ModuleName(CurrentFile.path), CurrentFile.path)

\* what analyze_file does with the tree of the current file
Analysis ==
    analyze_file(Parse(CurrentFile.source), ModuleName(CurrentFile.path),
                 imports, StoredModule)

\* The guards of the steps.  Each step below is its guard (for the two steps
\* that analyse a file, written with the analysis computed once) and
\* assignments to every variable, so it can be taken exactly when its guard
\* holds.
CanSkipFile == AtFile /\ ~Eligible(CurrentFile.path)
CanAnalyzeParseError == AtFile /\ Eligible(CurrentFile.path) /\ ~CurrentFile.parses
CanAnalyzeFile ==
    AtFile /\ Eligible(CurrentFile.path) /\ CurrentFile.parses /\ ~Analysis.raised
CanAnalyzeFileRaises ==
    AtFile /\ Eligible(CurrentFile.path) /\ CurrentFile.parses /\ Analysis.raised
CanWriteOutput == pc = "analyze" /\ visited = Len(repo)

\* the file is not eligible: the loop goes on to the next one
SkipFile ==
    /\ CanSkipFile
    /\ visited' = visited + 1
    /\ steps' = steps + 1
    /\ UNCHANGED <<repo, verbose, pc, imports, module_imports, test_scenarios,
                   warnings, calls, artifact>>

\* astroid.parse raises: the warning is printed and nothing else changes
AnalyzeParseError ==
    /\ CanAnalyzeParseError
    /\ visited' = visited + 1
    /\ steps' = steps + 1
    /\ warnings' = Append(warnings, CurrentFile.path)
    /\ UNCHANGED <<repo, verbose, pc, imports, module_imports, test_scenarios,
                   calls, artifact>>

\* the file is parsed and analyze_file returns
AnalyzeFile ==
    /\ AtFile /\ Eligible(CurrentFile.path) /\ CurrentFile.parses
    /\ LET r == Analysis
       IN /\ ~r.raised
          /\ module_imports' = StoredModule
          /\ imports' = r.imports
          /\ calls' = calls \o r.calls
          /\ test_scenarios' = DictSet(test_scenarios, CurrentFile.path, r.file_scenarios)
    /\ visited' = visited + 1
    /\ steps' = steps + 1
    /\ UNCHANGED <<repo, verbose, pc, warnings, artifact>>

\* AnalyzeFileRaises with the try around the whole walk: the first exception
\* ends the analysis of the repository
AnalyzeFileRaises_EndsWalk ==
    /\ AtFile /\ Eligible(CurrentFile.path) /\ CurrentFile.parses
    /\ LET r == Analysis
       IN /\ r.raised
          /\ module_imports' = StoredModule
          /\ imports' = r.imports
          /\ calls' = calls \o r.calls
    /\ visited' = Len(repo)
    /\ steps' = steps + 1
    /\ warnings' = Append(warnings, CurrentFile.path)
    /\ UNCHANGED <<repo, verbose, pc, test_scenarios, artifact>>

\* the file is parsed and an exception leaves analyze_file: the warning is
\* printed, what the calls did to self.imports stays
AnalyzeFileRaises ==
    /\ AtFile /\ Eligible(CurrentFile.path) /\ CurrentFile.parses
    /\ LET r == Analysis
       IN /\ r.raised
          /\ module_imports' = StoredModule
          /\ imports' = r.imports
          /\ calls' = calls \o r.calls
    /\ visited' = visited + 1
    /\ steps' = steps + 1
    /\ warnings' = Append(warnings, CurrentFile.path)
    /\ UNCHANGED <<repo, verbose, pc, test_scenarios, artifact>>

\* the lines main writes for the tests of one file
TestLines(tests, v) ==
    Concat([i \in 1..Len(tests) |->
              (IF v THEN << <<"# ">> \o tests[i].description >> ELSE <<>>)
              \o tests[i].test_code \o << <<>> >>])

FileLines(entry, v) ==
    << <<"# Tests for ">> \o entry[1] >>
    \o Concat([j \in 1..Len(entry[2]) |-> TestLines(entry[2][j][2], v)])

\* WriteImports without sorted(): the statements in the order of the set
WriteImports_Unsorted(imps) == imps

\* for import_statement in sorted(generator.imports)
WriteImports(imps) == sorted(imps)

\* everything main writes, given what analyze_repository left behind
OutputLines(imps, scenarios, v) ==
    WriteImports(imps) \o << <<>>, <<>> >>
    \o Concat([i \in 1..Len(scenarios) |-> FileLines(scenarios[i], v)])

\* analyze_repository has returned: main writes the output file
WriteOutput ==
    /\ CanWriteOutput
    /\ \E v \in BOOLEAN :
          /\ verbose' = v
          /\ artifact' = OutputLines(imports, test_scenarios, v)
    /\ pc' = "done"
    /\ steps' = steps + 1
    /\ UNCHANGED <<repo, visited, imports, module_imports, test_scenarios,
                   warnings, calls>>

\* analyze_repository as a whole: what it leaves behind after the files
RECURSIVE analyze_repository(_, _)
analyze_repository(files, acc) ==
    IF files = <<>> THEN acc
    ELSE LET file == Head(files)
             module_name == ModuleName(file.path)
             mod_imps == DictSet(acc.module_imports, module_name, file.path)
             r == analyze_file(Parse(file.source), module_name, acc.imports, mod_imps)
         IN IF ~Eligible(file.path) \/ ~file.parses
            THEN analyze_repository(Tail(files), acc)
            ELSE analyze_repository(Tail(files),
                    [imports |-> r.imports,
                     module_imports |-> mod_imps,
                     test_scenarios |-> IF r.raised THEN acc.test_scenarios
                                        ELSE DictSet(acc.test_scenarios, file.path,
                                                     r.file_scenarios)])

\* the output file of one run of main over the files, in that order
main(files, v) ==
    LET g == analyze_repository(files, [imports |-> <<>>, module_imports |-> <<>>,
                                        test_scenarios |-> <<>>])
    IN OutputLines(g.imports, g.test_scenarios, v)

Next ==
    \/ SkipFile
    \/ AnalyzeParseError
    \/ AnalyzeFile
    \/ AnalyzeFileRaises
    \/ WriteOutput

Spec == Init /\ [][Next]_vars
SpecDecl == InitDecl /\ [][Next]_vars

-----------------------------------------------------------------------------
(* Vocabulary of the properties. *)

\* the parameters a call of generate_test_scenarios goes through
ParamsOf(c) == Parameters(c.node, c.is_method)

\* the positions of the scenarios of c that bind the parameter `name`
Binding(c, name) ==
    {i \in 1..Len(c.scenarios) :
        c.scenarios[i].input # <<>> /\ c.scenarios[i].input[1][1] = name}

\* the value scenario i of c binds
BoundValue(c, i) == c.scenarios[i].input[1][2]

Contiguous(S) == \A i \in S, j \in S : \A k \in i..j : k \in S
First(S) == CHOOSE i \in S : \A j \in S : i <= j

\* the direct statements of the body analyze_function_body looks at
DirectIfTry(c) == SelectSeq(c.node.body, LAMBDA st : st.kind \in {"If", "TryExcept"})

\* the scenarios of c that come from the body
IsBodyScenario(s) == s.type \in {"conditional_test", "exception_test"}
BodyScenarios(c) == SelectSeq(c.scenarios, IsBodyScenario)

IntEdgeValues == <<0, -1, 1000000, -2147483647 - 1, 2147483647>>

-----------------------------------------------------------------------------
-----------------------------------------------------------------------------
\* the scenario statement i of the direct conditional and exception-handling
\* statements of c's body is to yield
ExpectedBodyType(c, i) ==
    IF DirectIfTry(c)[i].kind = "If" THEN "conditional_test" ELSE "exception_test"

\* C3: for every declaration with N direct conditional statements and M direct
\* exception-handling blocks, the call returns exactly N conditional-branch and
\* M exception-handler scenarios, in the order of the statements, after all
\* the scenarios of the parameters; nested statements contribute nothing.
C3_BodyScenarios ==
    \A n \in 1..Len(calls) :
        LET c == calls[n]
            k == Len(c.scenarios) - Len(BodyScenarios(c))
        IN /\ ~c.raised
           /\ Len(BodyScenarios(c)) = Len(DirectIfTry(c))
           /\ \A i \in 1..Len(c.scenarios) : IsBodyScenario(c.scenarios[i]) <=> i > k
           /\ \A i \in 1..Len(DirectIfTry(c)) :
                i <= Len(BodyScenarios(c)) =>
                    /\ BodyScenarios(c)[i].type = ExpectedBodyType(c, i)
                    /\ DirectIfTry(c)[i].kind = "If" =>
                         BodyScenarios(c)[i].description
                            = <<"Test conditional branch: ">> \o DirectIfTry(c)[i].test

\* C4: the test names of the scenarios one call of generate_test_scenarios
\* produces are pairwise distinct.
C4_UniqueNames ==
    \A n \in 1..Len(calls) :
        \A i, j \in 1..Len(calls[n].scenarios) :
            i # j => calls[n].scenarios[i].name # calls[n].scenarios[j].name

\* the lines of a rendered test that hold the call under test
CallLines(c, text) ==
    {l \in 2..Len(text) :
        \E i \in 1..Len(text[l]) - 1 :
            text[l][i] = c.node.name /\ text[l][i + 1] \in {"(", "()"}}

\* C10: every scenario produced for an asynchronous declaration renders an
\* asynchronous test function in which the call under test is awaited, and
\* every scenario produced for a method constructs the owning class without
\* arguments first and calls the method on that object.
C10_AsyncAndMethodRendering ==
    \A n \in 1..Len(calls) :
        LET c == calls[n]
        IN \A i \in 1..Len(c.scenarios) :
            LET text == c.scenarios[i].test_code
            IN /\ CallLines(c, text) # {}
               /\ IsAsync(c.node) =>
                    /\ text[1][1] = "async "
                    /\ \A l \in CallLines(c, text) : "await " \in Range(text[l])
               /\ c.is_method =>
                    /\ text[2] = <<"    ", "obj = ", c.class_name, "()">>
                    /\ \A l \in CallLines(c, text) :
                         \E k \in 1..Len(text[l]) - 2 :
                            SubSeq(text[l], k, k + 2) = <<"obj", ".", c.node.name>>

-----------------------------------------------------------------------------
(* Vocabulary of the properties of a whole run. *)

\* the import preamble of the output: its lines up to the first blank one
Preamble(lines) ==
    IF \E l \in 1..Len(lines) : lines[l] = <<>>
    THEN SubSeq(lines, 1, (CHOOSE l \in 1..Len(lines) :
                              lines[l] = <<>> /\ \A k \in 1..(l - 1) : lines[k] # <<>>) - 1)
    ELSE lines

CommentLine(path) == <<"# Tests for ">> \o path

\* the analysis of file i failed: it does not parse, or a call raised
Failed(i) ==
    \/ ~repo[i].parses
    \/ \E n \in 1..Len(calls) :
          calls[n].module = ModuleName(repo[i].path) /\ calls[n].raised

\* the result of call n was replaced by that of a later declaration of the
\* same name in the same file
Overwritten(n) ==
    \E m \in (n + 1)..Len(calls) :
        calls[m].module = calls[n].module /\ calls[m].key = calls[n].key

\* the lines `text` stand in the output below the comment line of `path`,
\* before the comment line of any other file
InSectionOf(path, text) ==
    LET comment == CommentLine(path)
    IN \E l \in 1..Len(artifact) :
          /\ artifact[l] = comment
          /\ \E k \in (l + 1)..(Len(artifact) - Len(text) + 1) :
                /\ SubSeq(artifact, k, k + Len(text) - 1) = text
                /\ \A j \in (l + 1)..k :
                      artifact[j] = <<>> \/ artifact[j][1] # "# Tests for "

\* the lines `text` stand somewhere in the output
InArtifact(text) ==
    \E k \in 1..Len(artifact) :
        /\ k + Len(text) - 1 <= Len(artifact)
        /\ SubSeq(artifact, k, k + Len(text) - 1) = text

C5_Safety ==
    \A i \in 1..Len(repo) :
        Eligible(repo[i].path) =>
            IF Failed(i)
            THEN CommentLine(repo[i].path) \notin Range(artifact)
            ELSE /\ Cardinality({l \in 1..Len(artifact) :
                                    artifact[l] = CommentLine(repo[i].path)}) = 1
                 /\ \A n \in 1..Len(calls) :
                      (calls[n].module = ModuleName(repo[i].path) /\ ~Overwritten(n)) =>
                         \A k \in 1..Len(calls[n].scenarios) :
                            InSectionOf(repo[i].path, calls[n].scenarios[k].test_code)

\* C5: whatever files fail to be analysed, the run ends by writing the output
\* (until the output is written main has a next step, and every step taken
\* is one more file gone through or the writing, so there are at most
\* Len(repo) + 1 of them); a file whose analysis succeeded has its section in
\* the output, with the scenarios of its declarations (of the last one, of
\* declarations that share a name), whether files before or after it failed;
\* a file whose analysis failed has no section.
C5_FailureIsolation ==
    /\ pc = "done" \/ CanSkipFile \/ CanAnalyzeParseError \/ CanAnalyzeFile
                   \/ CanAnalyzeFileRaises \/ CanWriteOutput
    /\ visited <= Len(repo)
    /\ steps = visited + (IF pc = "done" THEN 1 ELSE 0)
    /\ pc = "done" => C5_Safety

\* a file whose analysis raised, then a file with scenarios, then the output
C5_Witness ==
    /\ pc = "done"
    /\ Len(repo) = 2
    /\ Eligible(repo[1].path) /\ repo[1].parses /\ Failed(1)
    /\ Eligible(repo[2].path) /\ ~Failed(2)
    /\ \E n \in 1..Len(calls) :
          calls[n].module = ModuleName(repo[2].path) /\ calls[n].scenarios # <<>>

\* C6: when the formatter rejects the text of one scenario of a file, every
\* other scenario of that file that was rendered is still in the output.
C6_ScenarioFailureIsolated ==
    pc = "done" =>
        \A n \in 1..Len(calls) :
            (\E m \in 1..Len(calls) :
                calls[m].module = calls[n].module /\ calls[m].raised) =>
                \A k \in 1..Len(calls[n].scenarios) :
                    InArtifact(calls[n].scenarios[k].test_code)

\* the calls whose scenarios are in the output
Emitted ==
    {n \in 1..Len(calls) :
        /\ calls[n].scenarios # <<>>
        /\ \A k \in 1..Len(calls[n].scenarios) :
              InArtifact(calls[n].scenarios[k].test_code)}

ImportOf(c) ==
    <<"from ">> \o c.module \o <<" import ">>
    \o <<IF c.is_method THEN c.class_name ELSE c.node.name>>

\* C7: the import statements of the preamble are exactly those the scenarios
\* of the output need: pytest, the import of the function or class of each
\* declaration with a scenario in the output, and asyncio only if one of
\* these declarations is asynchronous.
C7_ImportsAreThoseOfEmitted ==
    pc = "done" =>
        Range(Preamble(artifact)) =
            (IF Emitted # {} THEN {<<"import pytest">>} ELSE {})
            \cup {ImportOf(calls[n]) : n \in Emitted}
            \cup (IF \E n \in Emitted : IsAsync(calls[n].node)
                  THEN {<<"import asyncio">>} ELSE {})

\* the files in the order p visits them
Reordered(p) == [i \in 1..Len(repo) |-> repo[p[i]]]

\* C8: a second run over the same files in the same order writes the same
\* output, and in whatever order the files are visited the import preamble
\* is the same sequence, sorted and without duplicates.
C8_Deterministic ==
    pc = "done" =>
        /\ LET preamble == Preamble(artifact)
           IN \A p \in Permutations(1..Len(repo)) :
                 LET again == main(Reordered(p), verbose)
                 IN /\ Reordered(p) = repo => again = artifact
                    /\ Preamble(again) = preamble
        /\ \A l \in 1..(Len(Preamble(artifact)) - 1) :
              StrLess(artifact[l], artifact[l + 1])

\* two files have been analysed, and the set holds the import statements in
\* another order than the sorted one
C8_Witness ==
    /\ pc = "done"
    /\ Len(repo) = 2
    /\ Len(Preamble(artifact)) >= 3
    /\ imports # Preamble(artifact)
    /\ \E n, m \in 1..Len(calls) : calls[n].module # calls[m].module

\* the lines of every scenario of the calls made for the module, in order
RECURSIVE ProducedLines(_, _)
ProducedLines(module, n) ==
    IF n > Len(calls) THEN <<>>
    ELSE (IF calls[n].module = module
          THEN TestLines(calls[n].scenarios, verbose) ELSE <<>>)
         \o ProducedLines(module, n + 1)

RECURSIVE ExpectedSections(_)
ExpectedSections(i) ==
    IF i > Len(repo) THEN <<>>
    ELSE (IF Eligible(repo[i].path) /\ ~Failed(i)
          THEN <<CommentLine(repo[i].path)>>
               \o ProducedLines(ModuleName(repo[i].path), 1)
          ELSE <<>>)
         \o ExpectedSections(i + 1)

\* C9: after the preamble, every analysed file contributes its comment line
\* followed by the text of every scenario generated for it, each once and in
\* the order they were produced.
C9_EveryScenarioWritten ==
    pc = "done" =>
        artifact = Preamble(artifact) \o << <<>>, <<>> >> \o ExpectedSections(1)

====
